---- MODULE Spec2Model ----
(***************************************************************************)
(* Model of the property-listing backend (src/index.js): three Express     *)
(* handlers (GET, POST, DELETE on /api/properties) over one Firestore      *)
(* collection.  Every `await` on the store is a suspension point, so each  *)
(* handler is split at its awaits; the store answers each call atomically, *)
(* with a result or with a rejection (the handler's catch block).          *)
(***************************************************************************)
EXTENDS Integers, Sequences, FiniteSets, Bags, TLC

\* ---------------------------------------------------------------- bounds
MaxReq == 2       \* requests suspended at a store call at once
MaxDocs == 2      \* ids the store hands out in one run
MaxNameLen == 2   \* characters in a generated name

\* ----------------------------------------------------------- JSON values
\* A JSON value of a request body or a stored document.  "undef" is an
\* absent key; "num" also stands for every truthy non-string (it has no
\* .replace method).
Undef == [t |-> "undef", s |-> <<>>, n |-> 0]
Str(s) == [t |-> "str", s |-> s, n |-> 0]
Num(n) == [t |-> "num", s |-> <<>>, n |-> n]

\* JavaScript truthiness: !v is true for undefined, "" and 0.
Truthy(v) == \/ v.t = "str" /\ v.s # <<>>
             \/ v.t = "num" /\ v.n # 0

\* Characters matched by the regular expression \s.
Whitespace == {" ", "\t", "\n"}

NoDoc == [name |-> Undef, price |-> Undef, location |-> Undef,
          image |-> Undef, id |-> Undef]

\* Document ids as the store's strings.
IdNames == <<"d1", "d2", "d3", "d4", "d5">>
IdVal(k) == Str(<<IdNames[k]>>)

PlaceholderPrefix == "https://placehold.co/600x400/cccccc/333?text="

ErrFetch == "Failed to fetch properties from the database."
ErrMissing == "Missing required property fields."
ErrAdd == "Failed to add property to the database."
ErrNotFound == "Property not found."
ErrDelete == "Failed to delete property from the database."
MsgDeleted == "Property deleted successfully."

\* ------------------------------------------------------------------ state
VARIABLES
    docs,      \* the collection: a set of [id, data]
    nextId,    \* how many ids the store has handed out
    inflight,  \* the requests suspended at a store call: a bag of records
    resp,      \* the response sent by the latest step (op "none": none)
    deleted    \* history: per store id, the DELETEs answered 200 for it

vars == <<docs, nextId, inflight, resp, deleted>>

\* A request as its handler starts: nothing awaited, nothing issued.
NewReq == [pc |-> "start", body |-> NoDoc, docData |-> NoDoc,
           param |-> Undef, since |-> {}, ops |-> {}, changed |-> FALSE,
           found |-> FALSE]

NoResp == [op |-> "none", status |-> 0, msg |-> "", obj |-> NoDoc,
           list |-> <<>>, body |-> NoDoc, param |-> Undef, since |-> {},
           ops |-> {}, changed |-> FALSE, failed |-> FALSE, found |-> FALSE,
           assigned |-> 0]

\* The response of request q.
Reply(q, op, status, msg) ==
    [NoResp EXCEPT !.op = op, !.status = status, !.msg = msg,
                   !.body = q.body, !.param = q.param, !.since = q.since,
                   !.ops = q.ops, !.changed = q.changed, !.found = q.found]

\* Request q suspends at a store call; request q resumes and ends.
Suspend(q) == inflight (+) SetToBag({q})
Resume(q) == inflight (-) SetToBag({q})
Waiting == BagToSet(inflight)
CanAccept == BagCardinality(inflight) < MaxReq

\* Store ids for which some DELETE has been answered 200.
DeletedOk == {k \in 1..MaxDocs : deleted[k] > 0}

\* ------------------------------------------------------------ pure parts
\* { id: idv, ...d }: a key of d named id overrides the one written first.
WithId(idv, d) == [d EXCEPT !.id = IF d.id = Undef THEN idv ELSE d.id]

\* The snapshot of collection.get(): the documents in id order.
SnapshotOf(D) ==
    CHOOSE q \in [1..Cardinality(D) -> D] :
        /\ \A i, j \in 1..Cardinality(D) : i # j => q[i] # q[j]
        /\ \A i, j \in 1..Cardinality(D) : i < j => q[i].id <= q[j].id

\* snapshot.forEach(doc => properties.push({ id: doc.id, ...doc.data() }))
Properties(snap) ==
    [i \in 1..Len(snap) |-> WithId(IdVal(snap[i].id), snap[i].data)]

\* !name || !price || !location
MissingRequired_NoLocation(b) == ~Truthy(b.name) \/ ~Truthy(b.price)
MissingRequired(b) ==
    ~Truthy(b.name) \/ ~Truthy(b.price) \/ ~Truthy(b.location)

\* name.replace(/\s/g, '+')
ReplaceWs_SpaceOnly(s) ==
    [i \in 1..Len(s) |-> IF s[i] = " " THEN "+" ELSE s[i]]
ReplaceWs(s) ==
    [i \in 1..Len(s) |-> IF s[i] \in Whitespace THEN "+" ELSE s[i]]

\* The template literal of the placeholder URL.
Placeholder(name) == Str(<<PlaceholderPrefix>> \o ReplaceWs(name.s))

\* Evaluating the image expression calls name.replace, which only a string
\* has: a TypeError otherwise.
Throws(b) == ~Truthy(b.image) /\ b.name.t # "str"

\* { ...newPropertyData, image: newPropertyData.image || placeholder }
DocData_NoDefault(b) == b
DocData(b) ==
    [b EXCEPT !.image = IF Truthy(b.image) THEN b.image
                        ELSE Placeholder(b.name)]

\* doc.exists of the snapshot of propertiesCollectionRef.doc(p).get()
DocExists_Always(p) == TRUE
DocExists(p) == \E d \in docs : IdVal(d.id) = p

\* The id the store gives the document of an add().
NewId == nextId + 1

\* ----------------------------------------------------------------- inputs
BaseBody == [name |-> Str(<<"a">>), price |-> Num(5),
             location |-> Str(<<"L">>), image |-> Undef, id |-> Undef]

\* Request bodies of the concurrent specification: the base body, the base
\* body with each required field absent or falsy, with a non-string name,
\* with an extra field id, and a body with a non-string name, a string
\* price and an image.
Bodies ==
    {BaseBody}
    \cup {[BaseBody EXCEPT !.name = v] : v \in {Undef, Str(<<>>), Num(7)}}
    \cup {[BaseBody EXCEPT !.price = v] : v \in {Undef, Num(0)}}
    \cup {[BaseBody EXCEPT !.location = v] : v \in {Undef, Str(<<>>)}}
    \cup {[BaseBody EXCEPT !.id = IdVal(1)]}
    \cup {[BaseBody EXCEPT !.name = Num(7), !.price = Str(<<"9">>),
                           !.image = Str(<<"u">>)]}

\* The :id of a DELETE: the ids the store can hand out, and a foreign one.
Params == {IdVal(k) : k \in 1..MaxDocs} \cup {Str(<<"unknown-id">>)}

NameChars == {"a", " ", "\t"}
Names == UNION {[1..n -> NameChars] : n \in 0..MaxNameLen}

\* Request bodies of the create specification: every name, with and
\* without an image, and the example of the specification.
NameBodies ==
    {[BaseBody EXCEPT !.name = v, !.image = i] :
        v \in {Str(s) : s \in Names} \cup {Undef, Num(7)},
        i \in {Undef, Str(<<>>), Str(<<"u">>)}}
    \cup {[BaseBody EXCEPT !.name = Str(<<"Lakeview", " ", "Cottage">>),
                           !.price = Num(250000),
                           !.location = Str(<<"Tahoe">>)]}

\* ------------------------------------------------------------------- Init
Init ==
    /\ docs = {}
    /\ nextId = 0
    /\ inflight = EmptyBag
    /\ resp = NoResp
    /\ deleted = [k \in 1..MaxDocs |-> 0]

\* -------------------------------------------------- GET /api/properties
\* The handler up to `await propertiesCollectionRef.get()`.
GetRecv ==
    /\ CanAccept
    /\ inflight' = Suspend([NewReq EXCEPT !.pc = "get_wait",
                                          !.since = DeletedOk,
                                          !.ops = {"get"}])
    /\ resp' = NoResp
    /\ UNCHANGED <<docs, nextId, deleted>>

\* The store answers the read; the handler builds and sends the list.
GetReply(q) ==
    /\ q.pc = "get_wait"
    /\ resp' = [Reply(q, "GET", 200, "") EXCEPT
                    !.list = Properties(SnapshotOf(docs))]
    /\ inflight' = Resume(q)
    /\ UNCHANGED <<docs, nextId, deleted>>

\* The read rejects: the catch block.
GetFail(q) ==
    /\ q.pc = "get_wait"
    /\ resp' = [Reply(q, "GET", 500, ErrFetch) EXCEPT !.failed = TRUE]
    /\ inflight' = Resume(q)
    /\ UNCHANGED <<docs, nextId, deleted>>

\* ------------------------------------------------- POST /api/properties
\* The handler up to `await propertiesCollectionRef.add(docData)`:
\* validation, then docData (which may throw), then the add is issued.
PostRecv(b) ==
    /\ CanAccept
    /\ LET q == [NewReq EXCEPT !.body = b] IN
       IF MissingRequired(b)
       THEN /\ resp' = Reply(q, "POST", 400, ErrMissing)
            /\ inflight' = inflight
       ELSE IF Throws(b)
       THEN /\ resp' = Reply(q, "POST", 500, ErrAdd)
            /\ inflight' = inflight
       ELSE /\ resp' = NoResp
            /\ inflight' = Suspend([q EXCEPT !.pc = "add_wait",
                                             !.docData = DocData(b),
                                             !.ops = {"add"}])
    /\ UNCHANGED <<docs, nextId, deleted>>

\* The store inserts the document under a new id; the handler answers 201.
AddReply(q) ==
    /\ q.pc = "add_wait"
    /\ nextId < MaxDocs
    /\ LET k == NewId
           D == docs \cup {[id |-> k, data |-> q.docData]}
       IN /\ docs' = D
          /\ nextId' = k
          /\ resp' = [Reply(q, "POST", 201, "") EXCEPT
                         !.obj = WithId(IdVal(k), q.docData),
                         !.assigned = k,
                         !.changed = q.changed \/ D # docs]
    /\ inflight' = Resume(q)
    /\ UNCHANGED deleted

\* The add rejects: the catch block.
AddFail(q) ==
    /\ q.pc = "add_wait"
    /\ resp' = [Reply(q, "POST", 500, ErrAdd) EXCEPT !.failed = TRUE]
    /\ inflight' = Resume(q)
    /\ UNCHANGED <<docs, nextId, deleted>>

\* ------------------------------------------ DELETE /api/properties/:id
\* The handler up to `await docRef.get()`.
DelRecv(p) ==
    /\ CanAccept
    /\ inflight' = Suspend([NewReq EXCEPT !.pc = "lookup_wait",
                                          !.param = p,
                                          !.ops = {"lookup"}])
    /\ resp' = NoResp
    /\ UNCHANGED <<docs, nextId, deleted>>

\* Request q with the history flag `found` set as the lookup runs.
AtLookup(q) == [q EXCEPT !.found = \E d \in docs : IdVal(d.id) = q.param]

\* The store answers the lookup: 404 when the document does not exist,
\* otherwise `await docRef.delete()` is issued.
LookupReply(q) ==
    /\ q.pc = "lookup_wait"
    /\ IF ~DocExists(q.param)
       THEN /\ resp' = Reply(AtLookup(q), "DELETE", 404, ErrNotFound)
            /\ inflight' = Resume(q)
       ELSE /\ resp' = NoResp
            /\ inflight' = Resume(q) (+) SetToBag({
                  [AtLookup(q) EXCEPT !.pc = "delete_wait",
                                      !.ops = q.ops \cup {"delete"}]})
    /\ UNCHANGED <<docs, nextId, deleted>>

\* The lookup rejects: the catch block.
LookupFail(q) ==
    /\ q.pc = "lookup_wait"
    /\ resp' = [Reply(AtLookup(q), "DELETE", 500, ErrDelete) EXCEPT
                    !.failed = TRUE]
    /\ inflight' = Resume(q)
    /\ UNCHANGED <<docs, nextId, deleted>>

\* The store runs the removal, which succeeds whether or not the document
\* is still there; the handler answers 200.
DeleteReply(q) ==
    /\ q.pc = "delete_wait"
    /\ LET D == {d \in docs : IdVal(d.id) # q.param}
       IN /\ docs' = D
          /\ resp' = [Reply(q, "DELETE", 200, MsgDeleted) EXCEPT
                         !.changed = q.changed \/ D # docs]
          /\ deleted' = [k \in 1..MaxDocs |->
                            IF IdVal(k) = q.param THEN deleted[k] + 1
                            ELSE deleted[k]]
    /\ inflight' = Resume(q)
    /\ UNCHANGED nextId

\* The removal rejects: the catch block.
DeleteFail(q) ==
    /\ q.pc = "delete_wait"
    /\ resp' = [Reply(q, "DELETE", 500, ErrDelete) EXCEPT !.failed = TRUE]
    /\ inflight' = Resume(q)
    /\ UNCHANGED <<docs, nextId, deleted>>

\* --------------------------------------------------------- specifications
Next ==
    \/ GetRecv
    \/ \E q \in Waiting : GetReply(q)
    \/ \E q \in Waiting : GetFail(q)
    \/ \E b \in Bodies : PostRecv(b)
    \/ \E q \in Waiting : AddReply(q)
    \/ \E q \in Waiting : AddFail(q)
    \/ \E p \in Params : DelRecv(p)
    \/ \E q \in Waiting : LookupReply(q)
    \/ \E q \in Waiting : LookupFail(q)
    \/ \E q \in Waiting : DeleteReply(q)
    \/ \E q \in Waiting : DeleteFail(q)

Spec == Init /\ [][Next]_vars

\* A create against the fresh collection: one request at a time, over
\* every name.
FirstCreate(b) == nextId = 0 /\ inflight = EmptyBag /\ PostRecv(b)

NextCreate ==
    \/ \E b \in NameBodies : FirstCreate(b)
    \/ \E q \in Waiting : AddReply(q)
    \/ \E q \in Waiting : AddFail(q)

SpecCreate == Init /\ [][NextCreate]_vars

\* ----------------------------------------------------------------- claims
AllPresent(b) == Truthy(b.name) /\ Truthy(b.price) /\ Truthy(b.location)

\* C1: every POST whose body has name, price and location truthy, and
\* whose store insertion does not fail, is answered 201 with an object
\* that has a non-empty id, the submitted name, price, location and image,
\* and a generated image when none was submitted.
C1_ValidCreateReturns201 ==
    (resp.op = "POST" /\ AllPresent(resp.body) /\ ~resp.failed) =>
        /\ resp.status = 201
        /\ resp.obj.id.t = "str" /\ resp.obj.id.s # <<>>
        /\ resp.obj.name = resp.body.name
        /\ resp.obj.price = resp.body.price
        /\ resp.obj.location = resp.body.location
        /\ Truthy(resp.body.image) => resp.obj.image = resp.body.image
        /\ Truthy(resp.obj.image)

\* C2: a step that answers a POST whose body lacks a truthy name, price or
\* location answers 400 with the missing-fields error, the request has
\* issued no store call, and the step leaves the collection as it was.
C2_MissingFieldsRejected ==
    [][(resp'.op = "POST" /\ ~AllPresent(resp'.body)) =>
          /\ resp'.status = 400
          /\ resp'.msg = ErrMissing
          /\ resp'.ops = {}
          /\ docs' = docs
          /\ nextId' = nextId]_vars

\* C2 witness: a create is rejected with 400 while the collection holds a
\* document.
C2_Witness ==
    /\ resp.op = "POST" /\ resp.status = 400
    /\ ~Truthy(resp.body.location)
    /\ docs # {}

\* C3: a GET received after a DELETE of an id was answered 200 lists no
\* object with that id.
C3_DeletedIdNotListed ==
    (resp.op = "GET" /\ resp.status = 200) =>
        \A k \in resp.since : \A i \in 1..Len(resp.list) :
            resp.list[i].id # IdVal(k)

\* C4 as claimed: a DELETE whose id is not in the collection when it is
\* looked up is answered 404 with the not-found error, issues no removal
\* and leaves the collection as it was.
C4_AbsentIdAnswers404 ==
    [][(resp'.op = "DELETE" /\ ~resp'.found) =>
          /\ resp'.status = 404
          /\ resp'.msg = ErrNotFound
          /\ "delete" \notin resp'.ops
          /\ docs' = docs]_vars

\* C4 as amended: a DELETE whose id is not in the collection when it is
\* looked up is answered 404 with the not-found error, or 500 when the
\* lookup itself failed; either way it issues no removal and leaves the
\* collection as it was.
C4_AbsentIdAnswers404Or500 ==
    [][(resp'.op = "DELETE" /\ ~resp'.found) =>
          /\ \/ resp'.status = 404 /\ resp'.msg = ErrNotFound
             \/ resp'.status = 500 /\ resp'.failed
          /\ "delete" \notin resp'.ops
          /\ docs' = docs]_vars

\* C4 witness: 404 for an id that is not there, with a document in the
\* collection.
C4_Witness ==
    /\ resp.op = "DELETE" /\ resp.status = 404 /\ ~resp.found
    /\ docs # {}

\* C5: a GET answered 200 lists exactly one object per stored document,
\* with the document's store id as its id and the stored name, price,
\* location and image.
C5_ListMatchesStore ==
    (resp.op = "GET" /\ resp.status = 200) =>
        /\ Len(resp.list) = Cardinality(docs)
        /\ \A d \in docs :
              Cardinality({i \in 1..Len(resp.list) :
                  /\ resp.list[i].id = IdVal(d.id)
                  /\ resp.list[i].name = d.data.name
                  /\ resp.list[i].price = d.data.price
                  /\ resp.list[i].location = d.data.location
                  /\ resp.list[i].image = d.data.image}) = 1

\* C6: the id of a 201 response is the id under which the store holds the
\* inserted document, so a lookup of it finds that document.
C6_ReturnedIdIsStoreId ==
    (resp.op = "POST" /\ resp.status = 201) =>
        \E d \in docs :
            /\ IdVal(d.id) = resp.obj.id
            /\ d.id = resp.assigned

\* The fields docData takes from the body unchanged.
KeepsFields(b, d) ==
    /\ d.name = b.name
    /\ d.price = b.price
    /\ d.location = b.location
    /\ d.id = b.id

\* C7 as claimed: the document handed to the store is the body with image
\* the caller's image when present, otherwise the placeholder prefix
\* followed by name with each space replaced by "+" and every other
\* character kept.
C7_PlaceholderReplacesSpaces ==
    \A q \in Waiting : q.pc = "add_wait" =>
        LET b == q.body
            d == q.docData
        IN /\ KeepsFields(b, d)
           /\ Truthy(b.image) => d.image = b.image
           /\ ~Truthy(b.image) =>
                 /\ d.image.t = "str"
                 /\ Len(d.image.s) = Len(b.name.s) + 1
                 /\ d.image.s[1] = PlaceholderPrefix
                 /\ \A i \in 1..Len(b.name.s) :
                       d.image.s[i + 1] =
                           IF b.name.s[i] = " " THEN "+" ELSE b.name.s[i]

\* C7 as amended: the document handed to the store is the body with image
\* the caller's image when present, otherwise the placeholder prefix
\* followed by name with each whitespace character (space, tab, newline,
\* ...) replaced by "+" and every other character kept.
C7_PlaceholderReplacesWhitespace ==
    \A q \in Waiting : q.pc = "add_wait" =>
        LET b == q.body
            d == q.docData
        IN /\ KeepsFields(b, d)
           /\ Truthy(b.image) => d.image = b.image
           /\ ~Truthy(b.image) =>
                 /\ d.image.t = "str"
                 /\ Len(d.image.s) = Len(b.name.s) + 1
                 /\ d.image.s[1] = PlaceholderPrefix
                 /\ \A i \in 1..Len(b.name.s) :
                       d.image.s[i + 1] =
                           IF b.name.s[i] \in Whitespace THEN "+"
                           ELSE b.name.s[i]

\* C7 witness: the example of the specification, "Lakeview Cottage", is
\* handed to the store with text=Lakeview+Cottage.
C7_Witness ==
    \E q \in Waiting :
        /\ q.pc = "add_wait"
        /\ q.body.name = Str(<<"Lakeview", " ", "Cottage">>)
        /\ q.docData.image =
              Str(<<PlaceholderPrefix, "Lakeview", "+", "Cottage">>)

\* C8: a step that answers 400, 404 or 500 leaves the collection as it
\* was, and 500 is answered only when a store call of the request failed.
C8_AllOrNothing ==
    [][(resp'.status \in {400, 404, 500}) =>
          /\ docs' = docs
          /\ ~resp'.changed
          /\ resp'.status = 500 => resp'.failed]_vars

\* C9: every stored document has truthy name, price, location and image,
\* and no two stored documents share an id.
C9_StoredDocsWellFormed ==
    /\ \A d \in docs :
          /\ Truthy(d.data.name)
          /\ Truthy(d.data.price)
          /\ Truthy(d.data.location)
          /\ Truthy(d.data.image)
    /\ \A d, e \in docs : d.id = e.id => d = e

\* C9 witness: two documents are stored, one with a generated image and
\* one whose name is not a string.
C9_Witness ==
    /\ Cardinality(docs) = 2
    /\ \E d \in docs : d.data.image.s[1] = PlaceholderPrefix
    /\ \E d \in docs : d.data.name.t = "num"

\* C10 as claimed: at most one DELETE is answered 200 for any one stored
\* document, and a DELETE is answered 200 only if its own removal took the
\* document out of the collection.
C10_AtMostOne200 ==
    /\ \A k \in 1..MaxDocs : deleted[k] <= 1
    /\ (resp.op = "DELETE" /\ resp.status = 200) => resp.changed

\* C10 as amended: a DELETE is answered 200 only if the document was in
\* the collection when its own lookup ran (its removal may find it gone),
\* 404 only if its lookup found no document, and 500 only on a store
\* failure; so several concurrent DELETEs can be answered 200 for one
\* document.
C10_200OnlyIfFoundAtLookup ==
    resp.op = "DELETE" =>
        /\ resp.status \in {200, 404, 500}
        /\ resp.status = 200 =>
              resp.found /\ resp.ops = {"lookup", "delete"}
        /\ resp.status = 404 => ~resp.found /\ resp.ops = {"lookup"}
        /\ resp.status = 500 => resp.failed

\* C10 witness: two DELETEs have been answered 200 for one document.
C10_Witness ==
    /\ \E k \in 1..MaxDocs : deleted[k] >= 2
    /\ resp.op = "DELETE" /\ resp.status = 200 /\ ~resp.changed

====
